---- MODULE Spec2Model ----
(***************************************************************************)
(* Model of bin/countlines.py: the sweep over the weekly tags that checks  *)
(* out each tag with `lsst-build prepare`, filters manifest.txt into the   *)
(* list of products to count, and runs cloc on them.                       *)
(*                                                                         *)
(* Strings whose characters matter (manifest lines, product names) are     *)
(* sequences of one-character strings; tags are opaque strings.            *)
(***************************************************************************)
EXTENDS Integers, Sequences, FiniteSets, TLC

VARIABLES
    envSet,      \* "LSST_BUILD_DIR" in os.environ
    TAGS,        \* the list of tags to sweep
    pc,          \* position of the script: start, prepare, manifest, cloc, exit
    i,           \* index in TAGS of the current iteration of `for tag in TAGS`
    fs,          \* marker paths that exist under sources_dir after the checkout
    lines,       \* the lines `for line in fd` has read from the open manifest.txt
    products,    \* the list products
    calls,       \* the subprocess.run invocations made so far, in order
    reports,     \* the report files cloc has written in the sources directory
    stderr,      \* what the script has printed to sys.stderr
    exitStatus   \* the exit status of the process once pc = "exit"

vars == <<envSet, TAGS, pc, i, fs, lines, products, calls, reports,
          stderr, exitStatus>>

(***************************************************************************)
(* Bounds and input sets                                                   *)
(***************************************************************************)
MaxTags == 2
MaxLines == 4

TagSet == {"v1", "v2"}

pkgA == <<"p", "k", "g", "A">>
pkgB == <<"p", "k", "g", "B">>
metadetect == <<"m", "e", "t", "a", "d", "e", "t", "e", "c", "t">>

LineHeader == <<"#", " ", "h", "e", "a", "d", "e", "r", "\n">>
LineBuild == <<"B", "U", "I", "L", "D", " ", "a", "b", "c", "\n">>
LinePkgA == pkgA \o <<" ", "1", ".", "0", "\n">>
LinePkgB == pkgB \o <<" ", "2", ".", "0", "\n">>
LineMeta == metadetect \o <<" ", "1", ".", "0", "\n">>
LinePkgATab == pkgA \o <<"\t", "1", ".", "0", "\n">>

\* The lines a manifest.txt is made of in the model.
LineSet ==
    {LineHeader, LineBuild, LinePkgA, LinePkgB, LineMeta, LinePkgATab}

\* The states of the marker paths a checkout can leave behind: cfg holds the
\* products with <prod>/ups/eupspkg.cfg.sh, up those with <prod>/upstream.
FsSet == [cfg : SUBSET {pkgA}, up : SUBSET {pkgA}]

\* The tag lists of the model.  Tags are opaque to the script, so the first
\* entry of a list is always named v1.
TagLists ==
    {t \in UNION {[1..n -> TagSet] : n \in 0..MaxTags} :
        t = <<>> \/ t[1] = "v1"}

(***************************************************************************)
(* String helpers                                                          *)
(***************************************************************************)
Min(S) == CHOOSE x \in S : \A y \in S : x <= y

\* str.startswith(prefix)
StartsWith(s, prefix) ==
    /\ Len(s) >= Len(prefix)
    /\ SubSeq(s, 1, Len(prefix)) = prefix

\* str.split(sep)[0] for a one-character sep: everything before the first
\* occurrence of sep, the whole string when sep does not occur.
SplitFirst(s, sep) ==
    LET at == {j \in 1..Len(s) : s[j] = sep}
    IN  IF at = {} THEN s ELSE SubSeq(s, 1, Min(at) - 1)

(***************************************************************************)
(* The decisions of the script                                             *)
(***************************************************************************)
\* if "LSST_BUILD_DIR" not in os.environ
EnvMissingNever == FALSE
EnvMissing == ~envSet

\* the iteration order of `for tag in TAGS`
TagAtReversed(n) == TAGS[Len(TAGS) + 1 - n]
TagAt(n) == TAGS[n]

\* the step of `for tag in TAGS` to the next entry
NextIndexSkips(n) == n + 2
NextIndex(n) == n + 1

\* subprocess.run([lsst_build_exe, "prepare", ...], check=True)
PrepareUnchecked(rc) == FALSE
PrepareFatal(rc) == rc # 0

\* if line.startswith("#"): continue / if line.startswith("BUILD"): continue
SkipLineCommentOnly(line) == StartsWith(line, <<"#">>)
SkipLine(line) ==
    \/ StartsWith(line, <<"#">>)
    \/ StartsWith(line, <<"B", "U", "I", "L", "D">>)

\* prod = line.split(" ")[0]
FirstWord(line) == SplitFirst(line, " ")

\* os.path.exists(.../prod/ups/eupspkg.cfg.sh) or os.path.exists(.../prod/upstream)
\* and prod in ("metadetect",)
ExcludedBothMarkers(p, f) ==
    \/ p \in f.cfg /\ p \in f.up
    \/ p \in {metadetect}
Excluded(p, f) ==
    \/ p \in f.cfg \/ p \in f.up
    \/ p \in {metadetect}

\* if not products
EmptyProductsIgnored(ps) == FALSE
EmptyProducts(ps) == ps = <<>>

\* output_file = f"{tag}.yaml"
ReportFileFixed(tag) == "report.yaml"
ReportFile(tag) == tag \o ".yaml"

\* subprocess.run([CLOC_EXE, ...], check=True)
ClocUnchecked(rc) == FALSE
ClocFatal(rc) == rc # 0

(***************************************************************************)
(* Init and the actions                                                    *)
(***************************************************************************)
Init ==
    /\ envSet \in BOOLEAN
    /\ TAGS \in TagLists
    /\ pc = "start"
    /\ i = 1
    /\ fs = [cfg |-> {}, up |-> {}]
    /\ lines = <<>>
    /\ products = <<>>
    /\ calls = <<>>
    /\ reports = {}
    /\ stderr = <<>>
    /\ exitStatus = 0

Exit(status) ==
    /\ pc' = "exit"
    /\ exitStatus' = status

\* An uncaught CalledProcessError: traceback on stderr, exit status 1.
Raise(tag) ==
    /\ stderr' = Append(stderr, [msg |-> "CalledProcessError", tag |-> tag])
    /\ Exit(1)

\* Lines 556-565: the LSST_BUILD_DIR check and the chdir to sources_dir.
Setup ==
    /\ pc = "start"
    /\ IF EnvMissing
       THEN /\ stderr' = Append(stderr,
                  [msg |-> "lsst_build has not been setup", tag |-> ""])
            /\ Exit(1)
       ELSE /\ pc' = "prepare"
            /\ UNCHANGED <<stderr, exitStatus>>
    /\ UNCHANGED <<envSet, TAGS, i, fs, lines, products, calls, reports>>

\* Lines 567-591: the head of the loop, the checkout of the tag, and the
\* opening of manifest.txt with products = [].
Prepare ==
    /\ pc = "prepare"
    /\ i <= Len(TAGS)
    /\ \E rc \in {0, 1}, f \in FsSet :
        /\ calls' = Append(calls,
              [tool |-> "prepare", idx |-> i, tag |-> TagAt(i), rc |-> rc,
               report |-> ""])
        /\ fs' = f
        /\ IF PrepareFatal(rc)
           THEN /\ Raise(TagAt(i))
                /\ UNCHANGED <<lines, products>>
           ELSE /\ pc' = "manifest"
                /\ lines' = <<>>
                /\ products' = <<>>
                /\ UNCHANGED <<stderr, exitStatus>>
    /\ UNCHANGED <<envSet, TAGS, i, reports>>

\* Lines 592-613: one iteration of `for line in fd`.
ReadLine ==
    /\ pc = "manifest"
    /\ Len(lines) < MaxLines
    /\ \E line \in LineSet :
        /\ lines' = Append(lines, line)
        /\ IF SkipLine(line)
           THEN UNCHANGED products
           ELSE LET prod == FirstWord(line)
                IN  products' = IF Excluded(prod, fs)
                                THEN products
                                ELSE Append(products, prod)
    /\ UNCHANGED <<envSet, TAGS, pc, i, fs, calls, reports, stderr, exitStatus>>

\* Lines 613-619: the end of the manifest, where the `with` block closes the
\* file, and the check of the product list.
EndManifest ==
    /\ pc = "manifest"
    /\ lines' = <<>>
    /\ IF EmptyProducts(products)
       THEN /\ stderr' = Append(stderr,
                  [msg |-> "No products find with ref", tag |-> TagAt(i)])
            /\ Exit(1)
       ELSE /\ pc' = "cloc"
            /\ UNCHANGED <<stderr, exitStatus>>
    /\ UNCHANGED <<envSet, TAGS, i, fs, products, calls, reports>>

\* Lines 621-632: the cloc run of the tag, then on to the next tag.  A cloc
\* that fails may or may not have written its report file.
Cloc ==
    /\ pc = "cloc"
    /\ \E rc \in {0, 1}, wrote \in BOOLEAN :
        /\ rc = 0 => wrote
        /\ calls' = Append(calls,
              [tool |-> "cloc", idx |-> i, tag |-> TagAt(i), rc |-> rc,
               report |-> ReportFile(TagAt(i))])
        /\ reports' = IF wrote THEN reports \cup {ReportFile(TagAt(i))}
                      ELSE reports
        /\ IF ClocFatal(rc)
           THEN /\ Raise(TagAt(i))
                /\ UNCHANGED i
           ELSE /\ pc' = "prepare"
                /\ i' = NextIndex(i)
                /\ UNCHANGED <<stderr, exitStatus>>
    /\ UNCHANGED <<envSet, TAGS, fs, lines, products>>

\* The end of `for tag in TAGS`: the script falls off its end.
Finish ==
    /\ pc = "prepare"
    /\ i > Len(TAGS)
    /\ Exit(0)
    /\ UNCHANGED <<envSet, TAGS, i, fs, lines, products, calls, reports,
                   stderr>>

Next ==
    \/ Setup
    \/ Prepare
    \/ ReadLine
    \/ EndManifest
    \/ Cloc
    \/ Finish

Spec == Init /\ [][Next]_vars

(***************************************************************************)
(* Vocabulary of the properties                                            *)
(***************************************************************************)
Last(s) == s[Len(s)]

IsWhitespace(c) == c \in {" ", "\t", "\n"}

\* The first whitespace-delimited token of s, <<>> when s has none.
FirstToken(s) ==
    LET black == {j \in 1..Len(s) : ~IsWhitespace(s[j])}
    IN  IF black = {} THEN <<>>
        ELSE LET a == Min(black)
                 white == {j \in a..Len(s) : IsWhitespace(s[j])}
             IN  SubSeq(s, a, IF white = {} THEN Len(s) ELSE Min(white) - 1)

IsCommentOrBuild(line) ==
    \/ line[1] = "#"
    \/ Len(line) >= 5 /\ <<line[1], line[2], line[3], line[4], line[5]>>
                            = <<"B", "U", "I", "L", "D">>

Checkouts(n) == {j \in 1..Len(calls) : calls[j].tool = "prepare" /\ calls[j].idx = n}
Counts(n) == {j \in 1..Len(calls) : calls[j].tool = "cloc" /\ calls[j].idx = n}

Aborted == pc = "exit" /\ exitStatus # 0

NoProductsMessage(tag) == [msg |-> "No products find with ref", tag |-> tag]

\* The step of the manifest loop that reads one more line.
ReadsLine == pc = "manifest" /\ Len(lines') = Len(lines) + 1

(***************************************************************************)
(* C1: a checkout (lsst-build prepare) that exits non-zero is the last     *)
(* tool invocation of the run: the process has exited with a non-zero      *)
(* status, cloc is never run for that entry, and no later entry is checked *)
(* out.  With tags [v1, v2], v1 fully successful and the checkout of v2    *)
(* failing, the only report file is v1.yaml.                               *)
(***************************************************************************)
C1_CheckoutFailureAborts ==
    /\ \A j \in 1..Len(calls) :
          (calls[j].tool = "prepare" /\ calls[j].rc # 0)
             => /\ j = Len(calls)
                /\ Aborted
                /\ Counts(calls[j].idx) = {}
    /\ ( /\ TAGS = <<"v1", "v2">>
         /\ Len(calls) = 3
         /\ calls[1].rc = 0 /\ calls[2].rc = 0 /\ calls[3].rc # 0 )
       => (reports = {"v1.yaml"} /\ Aborted)

C1_Witness ==
    /\ TAGS = <<"v1", "v2">>
    /\ Len(calls) = 3
    /\ calls[3].tool = "prepare" /\ calls[3].tag = "v2" /\ calls[3].rc # 0
    /\ reports = {"v1.yaml"}
    /\ pc = "exit"

(***************************************************************************)
(* C2: when the manifest of a tag has been read and the product list is    *)
(* empty, the process has exited with a non-zero status, the last message  *)
(* on stderr names that tag, and the checkout of that tag is the last tool *)
(* invocation (cloc is not run for it, no later tag is processed).  cloc   *)
(* is never about to run on an empty list.                                 *)
(***************************************************************************)
C2_EmptyProductsAborts ==
    /\ ( /\ calls # <<>>
         /\ Last(calls).tool = "prepare" /\ Last(calls).rc = 0
         /\ pc # "manifest"
         /\ products = <<>> )
       => /\ Aborted
          /\ stderr # <<>>
          /\ Last(stderr) = NoProductsMessage(TAGS[Last(calls).idx])
          /\ Counts(Last(calls).idx) = {}
    /\ \A k \in 1..Len(stderr) :
          stderr[k].msg = "No products find with ref"
             => /\ Aborted
                /\ k = Len(stderr)
                /\ Last(calls).tool = "prepare"
                /\ Last(calls).tag = stderr[k].tag

C2_Witness ==
    /\ pc = "exit"
    /\ TAGS = <<"v1", "v2">>
    /\ Len(calls) = 3
    /\ fs.cfg = {pkgA}
    /\ products = <<>>
    /\ stderr = <<NoProductsMessage("v2")>>

(***************************************************************************)
(* C3: without LSST_BUILD_DIR the script, once it has run, has exited with *)
(* status 1 after one fatal message on stderr, with no tool invoked and no *)
(* report written.                                                         *)
(***************************************************************************)
C3_MissingEnvAborts ==
    (~envSet /\ pc # "start")
       => /\ pc = "exit"
          /\ exitStatus = 1
          /\ stderr = <<[msg |-> "lsst_build has not been setup", tag |-> ""]>>
          /\ calls = <<>>
          /\ reports = {}

C3_Witness ==
    /\ ~envSet
    /\ Len(TAGS) = 2
    /\ pc = "exit"
    /\ exitStatus = 1

(***************************************************************************)
(* C4: a cloc run that exits non-zero is the last tool invocation of the   *)
(* run, and the process has exited with a non-zero status.                 *)
(***************************************************************************)
C4_ClocFailureAborts ==
    \A j \in 1..Len(calls) :
       (calls[j].tool = "cloc" /\ calls[j].rc # 0)
          => /\ j = Len(calls)
             /\ Aborted

C4_Witness ==
    /\ Len(TAGS) = 2
    /\ Len(calls) = 2
    /\ calls[2].tool = "cloc" /\ calls[2].rc # 0
    /\ pc = "exit"

(***************************************************************************)
(* C5: every cloc run asks for the report <tag>.yaml of its tag, directly  *)
(* follows the successful checkout of the same entry, and has a non-empty  *)
(* product list; report files exist only for tags cloc was run for; and a  *)
(* run that ends with exit status 0 has a successful cloc run, and its     *)
(* report file, for every entry of the tag list.                           *)
(***************************************************************************)
C5_OneReportPerTag ==
    /\ \A j \in 1..Len(calls) :
          calls[j].tool = "cloc"
             => /\ calls[j].report = TAGS[calls[j].idx] \o ".yaml"
                /\ j > 1
                /\ calls[j - 1].tool = "prepare"
                /\ calls[j - 1].idx = calls[j].idx
                /\ calls[j - 1].rc = 0
                /\ j = Len(calls) => products # <<>>
    /\ \A r \in reports :
          \E j \in 1..Len(calls) :
             calls[j].tool = "cloc" /\ r = calls[j].tag \o ".yaml"
    /\ (pc = "exit" /\ exitStatus = 0)
          => \A n \in 1..Len(TAGS) :
                /\ \E j \in Counts(n) :
                      /\ calls[j].rc = 0
                      /\ calls[j].report = TAGS[n] \o ".yaml"
                /\ (TAGS[n] \o ".yaml") \in reports

C5_Witness ==
    /\ TAGS = <<"v1", "v2">>
    /\ pc = "exit"
    /\ exitStatus = 0
    /\ reports = {"v1.yaml", "v2.yaml"}

(***************************************************************************)
(* C6: whenever the manifest loop reads a line that is neither a comment   *)
(* nor a BUILD line, the name it takes from the line is the first          *)
(* whitespace-delimited token of the line: the product list is unchanged   *)
(* or grows by exactly that token, and no product in the list is empty or  *)
(* contains whitespace.                                                    *)
(***************************************************************************)
C6_NameIsFirstToken ==
    [][ (ReadsLine /\ ~IsCommentOrBuild(Last(lines')))
           => /\ \/ products' = products
                 \/ products' = Append(products, FirstToken(Last(lines')))
              /\ \A k \in 1..Len(products') :
                    /\ products'[k] # <<>>
                    /\ \A m \in 1..Len(products'[k]) :
                          ~IsWhitespace(products'[k][m]) ]_vars

(***************************************************************************)
(* C7: reading a manifest line that starts with '#' or with 'BUILD' never  *)
(* changes the product list, whatever the rest of the line and the marker  *)
(* paths.                                                                  *)
(***************************************************************************)
C7_SkippedLinesContributeNothing ==
    [][ (ReadsLine /\ IsCommentOrBuild(Last(lines')))
           => products' = products ]_vars

C7_Witness ==
    /\ pc = "manifest"
    /\ lines = <<LinePkgB, LineHeader, LineBuild>>
    /\ fs.cfg = {pkgA}
    /\ products = <<pkgB>>

(***************************************************************************)
(* C8: while a manifest is read, the product list is exactly the names    *)
(* taken from the non-skipped lines read so far, in order, without those   *)
(* whose ups/eupspkg.cfg.sh exists, or whose upstream directory exists, or *)
(* that equal metadetect.  For the manifest '# header', 'BUILD abc',       *)
(* 'pkgA 1.0', 'pkgB 2.0' with the marker file present for pkgA only, the  *)
(* list is [pkgB].                                                         *)
(***************************************************************************)
C8_Named ==
    LET kept == SelectSeq(lines, LAMBDA l : ~IsCommentOrBuild(l))
    IN  [k \in 1..Len(kept) |-> FirstWord(kept[k])]

C8_ExcludedIffMarkerOrStatic ==
    /\ pc = "manifest"
          => products =
                SelectSeq(C8_Named,
                          LAMBDA p : ~ \/ p \in fs.cfg
                                       \/ p \in fs.up
                                       \/ p = metadetect)
    /\ ( /\ pc = "manifest"
         /\ lines = <<LineHeader, LineBuild, LinePkgA, LinePkgB>>
         /\ pkgA \in fs.cfg /\ pkgB \notin fs.cfg /\ pkgB \notin fs.up )
       => products = <<pkgB>>

C8_Witness ==
    /\ pc = "manifest"
    /\ lines = <<LineHeader, LineBuild, LinePkgA, LinePkgB>>
    /\ fs = [cfg |-> {pkgA}, up |-> {}]
    /\ products = <<pkgB>>

(***************************************************************************)
(* C9: the tool invocations of a run are a prefix of checkout(t1),         *)
(* count(t1), checkout(t2), count(t2), ...: every invocation but the last  *)
(* has succeeded, the manifest is read and cloc is about to run only right *)
(* after the successful checkout of the current tag.                       *)
(***************************************************************************)
C9_SequentialInListedOrder ==
    /\ \A j \in 1..Len(calls) :
          /\ calls[j].tool = IF j % 2 = 1 THEN "prepare" ELSE "cloc"
          /\ (j + 1) \div 2 <= Len(TAGS)
          /\ calls[j].idx = (j + 1) \div 2
          /\ calls[j].tag = TAGS[(j + 1) \div 2]
          /\ j < Len(calls) => calls[j].rc = 0
    /\ pc \in {"manifest", "cloc"}
          => /\ calls # <<>>
             /\ Last(calls).tool = "prepare"
             /\ Last(calls).rc = 0
             /\ Last(calls).idx = i

C9_Witness ==
    /\ TAGS = <<"v1", "v2">>
    /\ Len(calls) = 4
    /\ calls[3].tag = "v2"
    /\ calls[4].tool = "cloc"

(***************************************************************************)
(* C10: for each entry of the tag list the checkout is invoked at most     *)
(* once and cloc at most once; in a run that ends with exit status 0 each  *)
(* is invoked exactly once per entry, also for a tag listed twice.         *)
(***************************************************************************)
C10_NoRetries ==
    \A n \in 1..Len(TAGS) :
       /\ Cardinality(Checkouts(n)) <= 1
       /\ Cardinality(Counts(n)) <= 1
       /\ (pc = "exit" /\ exitStatus = 0)
             => /\ Cardinality(Checkouts(n)) = 1
                /\ Cardinality(Counts(n)) = 1

C10_Witness ==
    /\ TAGS = <<"v1", "v1">>
    /\ pc = "exit"
    /\ exitStatus = 0
    /\ Len(calls) = 4
    /\ reports = {"v1.yaml"}

====
